---- MODULE Spec2Model ----
(***************************************************************************)
(* State-machine model of the RBPSig pipeline scripts:                     *)
(*   alignment.py        (decompress_files, find_bam_file,                 *)
(*                        write_bam_manifest, align_reads)                 *)
(*   sra_accessions.py   (download_sra_files, generate_fastq_files)        *)
(*   bam_qc_samtools.py  (run_samtools_qc, main)                           *)
(* A path is a sequence of one-character strings.  Every external tool     *)
(* (gzip, STAR, prefetch, fastq-dump, samtools) is the environment: each   *)
(* call ends with exit 0, with a non-zero exit, or with an OSError when    *)
(* the executable cannot be started.                                       *)
(***************************************************************************)
EXTENDS Integers, Sequences, FiniteSets, TLC

\* ------------------------------------------------------------------ bounds
\* Longest --readFilesIn list.
MaxFiles == 4
\* Number of process invocations of alignment.py.
MaxRuns == 2

\* ----------------------------------------------------------- path helpers
Min(S) == CHOOSE k \in S : \A j \in S : k <= j

Max(S) == CHOOSE k \in S : \A j \in S : j <= k

\* str.endswith
EndsWith(s, suf) ==
    /\ Len(s) >= Len(suf)
    /\ SubSeq(s, Len(s) - Len(suf) + 1, Len(s)) = suf

\* str.startswith
StartsWith(s, pre) == Len(s) >= Len(pre) /\ SubSeq(s, 1, Len(pre)) = pre

GZ == <<".", "g", "z">>

BAM == <<".", "b", "a", "m">>

\* file[:-3]
StripGz(file) == SubSeq(file, 1, Len(file) - 3)

\* os.path.basename: what follows the last "/"
Basename(p) ==
    LET I == {k \in 1..Len(p) : p[k] = "/"}
    IN  IF I = {} THEN p ELSE SubSeq(p, Max(I) + 1, Len(p))

\* s.split('_')[0]: what precedes the first "_" (all of s when it has none)
SplitFirst(s) ==
    LET I == {k \in 1..Len(s) : s[k] = "_"}
    IN  IF I = {} THEN s ELSE SubSeq(s, 1, Min(I) - 1)

\* os.path.join(a, b)
Join(a, b) ==
    IF StartsWith(b, <<"/">>) THEN b
    ELSE IF a = <<>> \/ EndsWith(a, <<"/">>) THEN a \o b
    ELSE a \o <<"/">> \o b

\* accession_id without os.path.basename: the whole path is split.
accession_id_of_path(pair) == SplitFirst(pair[1])

\* accession_id = os.path.basename(pair[0]).split('_')[0]
accession_id(pair) == SplitFirst(Basename(pair[1]))

\* --output-dir
output_dir_base == <<"o">>

\* output_subdir = os.path.join(output_dir_base, accession_id)
output_subdir(pair) == Join(output_dir_base, accession_id(pair))

\* ------------------------------------------------------------ input lists
A1gz == <<"d", "/", "A", "_", "1", ".", "g", "z">>

A2gz == <<"d", "/", "A", "_", "2", ".", "g", "z">>

B1gz == <<"B", "_", "1", ".", "g", "z">>

B2 == <<"B", "_", "2">>

A1 == <<"d", "/", "A", "_", "1">>

A2e == <<"e", "/", "A", "_", "2">>

U1 == <<"_", "1">>

U2 == <<"_", "2">>

C1gz == <<"C", "_", "1", ".", "g", "z">>

\* The --readFilesIn lists: every prefix, up to MaxFiles files, of three
\* orders (two compressed samples; a sample without accession; mates of
\* different samples).
Orders ==
    { <<A1gz, A2gz, B1gz, B2, C1gz, A1>>,
      <<A1, A2e, U1, U2, B2, C1gz>>,
      <<A1, B2, C1gz, A2gz, U1, U2>> }

InputLists == {SubSeq(o, 1, n) : o \in Orders, n \in 1..MaxFiles}

\* File names a directory of the output tree can hold.
StarBam == <<"S">> \o BAM

OldBam == <<"o", "l", "d">> \o BAM

\* ------------------------------------------------------------------ state
VARIABLES
    args_readFilesIn,    \* args.readFilesIn, the same in every invocation
    pc,                  \* where the process is
    run,                 \* process invocations started so far
    di,                  \* decompress_files: index of `file` in `files`
    decompressed_files,  \* decompress_files: the list being built
    read_files,          \* align_reads: read_files after line 77
    i,                   \* align_reads: loop index (1-based)
    bam_manifest_data,   \* align_reads: rows collected in this run
    exists,              \* decompressed files present on disk
    dirs,                \* output tree: directory -> file names in it
    manifestExists,      \* whether bam_manifest.txt exists
    manifest,            \* content of bam_manifest.txt, a character sequence
    gzipCalls,           \* history: files passed to gzip in this run
    starCalls,           \* history: aligner invocations of this run
    nSucceeded,          \* history: sample runs with exit 0 and a BAM found
    prevOk,              \* history: pairs that succeeded in an earlier run
    manifest0            \* history: content of bam_manifest.txt at run start

\* sra_accessions.py
VARIABLES
    accession_file,      \* the lines of the accession file, header first
    download_has,        \* accessions whose {dir}/{id}/{id}.sra is on disk
    spc,                 \* where the process is
    sra_numbers,         \* download_sra_files: the list it returns
    si,                  \* index of sra_id in sra_numbers (1-based)
    prefetchCalls,       \* history: prefetch invocations
    fastqCalls           \* history: fastq-dump invocations

\* bam_qc_samtools.py
VARIABLES
    qcTree,              \* directory -> file names in it
    qpc,                 \* where the process is
    root,                \* os.walk: the directory being listed
    files,               \* os.walk: names of `root` not yet looped over
    todoDirs,            \* os.walk: directories not yet listed
    bam_file,            \* run_samtools_qc: its argument
    qcCalls,             \* history: samtools invocations
    qcWritten            \* history: report files written

\* differential_splicing.py
VARIABLES
    args,                \* the parsed command line
    mpc,                 \* where the process is
    quant_manifest,      \* __main__: the manifest handed to mesa quant
    mesaCalls            \* history: mesa invocations

\* filter_data.py
VARIABLES
    manifest_file,       \* rows of {output_prefix}_manifest.txt
    input_file,          \* the table of {output_prefix}_pairwiseFisherResults.tsv
    fpc,                 \* where the process is
    id_to_type,          \* filter_data: accession -> group
    valid_columns,       \* filter_data: the columns kept
    final_df,            \* filter_data: the rows kept
    significant_clusters \* main: what filter_data returned

alignVars ==
    << args_readFilesIn, pc, run, di, decompressed_files, read_files, i,
       bam_manifest_data, exists, dirs, manifestExists, manifest,
       gzipCalls, starCalls, nSucceeded, prevOk, manifest0 >>

sraVars ==
    << accession_file, download_has, spc, sra_numbers, si, prefetchCalls, fastqCalls >>

qcVars == << qcTree, qpc, root, files, todoDirs, bam_file, qcCalls, qcWritten >>

mesaVars == << args, mpc, quant_manifest, mesaCalls >>

filterVars == << manifest_file, input_file, fpc, id_to_type, valid_columns, final_df,
                significant_clusters >>

vars == << alignVars, sraVars, qcVars, mesaVars, filterVars >>

\* The state of a script that is not the one running.
AlignIdle ==
    /\ args_readFilesIn = <<>>
    /\ pc = "off"
    /\ run = 0
    /\ di = 1
    /\ decompressed_files = <<>>
    /\ read_files = <<>>
    /\ i = 1
    /\ bam_manifest_data = <<>>
    /\ exists = {}
    /\ dirs = <<>>
    /\ manifestExists = FALSE
    /\ manifest = <<>>
    /\ gzipCalls = <<>>
    /\ starCalls = <<>>
    /\ nSucceeded = 0
    /\ prevOk = {}
    /\ manifest0 = <<>>

SraIdle ==
    /\ accession_file = <<>>
    /\ download_has = {}
    /\ spc = "off"
    /\ sra_numbers = <<>>
    /\ si = 1
    /\ prefetchCalls = <<>>
    /\ fastqCalls = <<>>

QcIdle ==
    /\ qcTree = <<>>
    /\ qpc = "off"
    /\ root = <<>>
    /\ files = {}
    /\ todoDirs = {}
    /\ bam_file = <<>>
    /\ qcCalls = <<>>
    /\ qcWritten = {}

MesaIdle ==
    /\ args = <<>>
    /\ mpc = "off"
    /\ quant_manifest = <<>>
    /\ mesaCalls = <<>>

FilterIdle ==
    /\ manifest_file = <<>>
    /\ input_file = <<>>
    /\ fpc = "off"
    /\ id_to_type = <<>>
    /\ valid_columns = <<>>
    /\ final_df = <<>>
    /\ significant_clusters = <<>>

\* The directories align_reads can use for a list: one per file (any file
\* can become the first of a pair).
\* The name decompress_files returns for a file it keeps.
Dec(f) == IF EndsWith(f, GZ) THEN StripGz(f) ELSE f

SubdirsOf(fs) == {output_subdir(<<Dec(fs[k])>>) : k \in 1..Len(fs)}

DecompressedNames(fs) ==
    {StripGz(fs[k]) : k \in {j \in 1..Len(fs) : EndsWith(fs[j], GZ)}}

\* Python's None and the empty string are both false in `if bam_file_path:`.
None == <<>>

Last(s) == s[Len(s)]

\* One manifest row as write_bam_manifest formats it:
\* f"{accession_id}\t{bam_path}\n"
Row(entry) == entry[1] \o <<"\t">> \o entry[2] \o <<"\n">>

RECURSIVE RowsText(_)
RowsText(data) ==
    IF data = <<>> THEN <<>> ELSE Row(Head(data)) \o RowsText(Tail(data))

\* write_bam_manifest with open(manifest_path, 'w').
write_bam_manifest_truncating(content, manifest_data) == RowsText(manifest_data)

\* write_bam_manifest: open(manifest_path, 'a') and one write per entry
write_bam_manifest(content, manifest_data) == content \o RowsText(manifest_data)

\* glob.glob(os.path.join(directory, '*.bam')) over the tree `tree`
bam_files(tree, directory) ==
    {Join(directory, name) : name \in {n \in tree[directory] : EndsWith(n, BAM)}}

\* find_bam_file: the values it can return.  glob lists a directory in no
\* fixed order, so bam_files[0] is any of the matches.
find_bam_file(tree, directory) ==
    IF bam_files(tree, directory) # {} THEN bam_files(tree, directory) ELSE {None}

\* ------------------------------------------------------------ alignment.py
InitAlign ==
    /\ args_readFilesIn \in InputLists
    /\ pc = "idle"
    /\ run = 0
    /\ di = 1
    /\ decompressed_files = <<>>
    /\ read_files = <<>>
    /\ i = 1
    /\ bam_manifest_data = <<>>
    /\ exists \in SUBSET DecompressedNames(args_readFilesIn)
    /\ \E stale \in BOOLEAN :
         dirs = [d \in SubdirsOf(args_readFilesIn) |->
                   IF stale /\ d = output_subdir(<<Dec(args_readFilesIn[1])>>)
                   THEN {OldBam} ELSE {}]
    /\ manifestExists \in BOOLEAN
    /\ manifest = <<>>
    /\ gzipCalls = <<>>
    /\ starCalls = <<>>
    /\ nSucceeded = 0
    /\ prevOk = {}
    /\ manifest0 = <<>>
    /\ SraIdle
    /\ QcIdle
    /\ MesaIdle
    /\ FilterIdle

\* An aligner invocation succeeded: exit 0 and a BAM in the subdirectory
\* when find_bam_file looked.
Succeeded(c) == c.exit = 0 /\ c.atCheck # {}

\* The pairs of this run's aligner invocations that succeeded.
OkPairs == {starCalls[k].pair : k \in {j \in 1..Len(starCalls) : Succeeded(starCalls[j])}}

\* python alignment.py ...: a new process; the disk is what the last one left.
StartRun ==
    /\ pc \in {"idle", "done", "aborted"}
    /\ run < MaxRuns
    /\ run' = run + 1
    /\ pc' = "decompress"
    /\ di' = 1
    /\ decompressed_files' = <<>>
    /\ read_files' = <<>>
    /\ i' = 1
    /\ bam_manifest_data' = <<>>
    /\ gzipCalls' = <<>>
    /\ starCalls' = <<>>
    /\ prevOk' = prevOk \cup OkPairs
    /\ manifest0' = manifest
    /\ UNCHANGED <<args_readFilesIn, exists, dirs, manifestExists, manifest, nSucceeded>>
    /\ UNCHANGED <<sraVars, qcVars, mesaVars, filterVars>>

UnchangedByDecompress ==
    UNCHANGED <<args_readFilesIn, run, read_files, i, bam_manifest_data, dirs,
                manifestExists, manifest, starCalls, nSucceeded, prevOk, manifest0,
                sraVars, qcVars, mesaVars, filterVars>>

file == args_readFilesIn[di]

InDecompress == pc = "decompress" /\ di <= Len(args_readFilesIn)

\* line 57: not a .gz file
DecompressPlain ==
    /\ InDecompress
    /\ ~EndsWith(file, GZ)
    /\ decompressed_files' = Append(decompressed_files, file)
    /\ di' = di + 1
    /\ UNCHANGED <<pc, exists, gzipCalls>>
    /\ UnchangedByDecompress

\* DecompressAlready without the test of line 46: gzip -d is run on a file
\* whose decompressed copy is there.
DecompressAlreadyGzips ==
    /\ InDecompress
    /\ EndsWith(file, GZ)
    /\ StripGz(file) \in exists
    /\ gzipCalls' = Append(gzipCalls, file)
    /\ decompressed_files' = Append(decompressed_files, StripGz(file))
    /\ di' = di + 1
    /\ UNCHANGED <<pc, exists>>
    /\ UnchangedByDecompress

\* lines 53-55: the decompressed file is already there
DecompressAlready ==
    /\ InDecompress
    /\ EndsWith(file, GZ)
    /\ StripGz(file) \in exists
    /\ decompressed_files' = Append(decompressed_files, StripGz(file))
    /\ di' = di + 1
    /\ UNCHANGED <<pc, exists, gzipCalls>>
    /\ UnchangedByDecompress

NeedsGzip == InDecompress /\ EndsWith(file, GZ) /\ StripGz(file) \notin exists

\* lines 49-50: gzip -d exits 0
GzipOk ==
    /\ NeedsGzip
    /\ gzipCalls' = Append(gzipCalls, file)
    /\ exists' = exists \cup {StripGz(file)}
    /\ decompressed_files' = Append(decompressed_files, StripGz(file))
    /\ di' = di + 1
    /\ UNCHANGED pc
    /\ UnchangedByDecompress

\* lines 51-52: gzip -d exits non-zero, CalledProcessError is caught and the
\* file is left out of the returned list
GzipFail ==
    /\ NeedsGzip
    /\ gzipCalls' = Append(gzipCalls, file)
    /\ di' = di + 1
    /\ UNCHANGED <<pc, exists, decompressed_files>>
    /\ UnchangedByDecompress

\* line 49: gzip cannot be started; the OSError is caught nowhere
GzipOSError ==
    /\ NeedsGzip
    /\ gzipCalls' = Append(gzipCalls, file)
    /\ pc' = "aborted"
    /\ UNCHANGED <<di, exists, decompressed_files>>
    /\ UnchangedByDecompress

\* lines 58, 77-82: return decompressed_files; read_files = ...
DecompressReturn ==
    /\ pc = "decompress"
    /\ di > Len(args_readFilesIn)
    /\ read_files' = decompressed_files
    /\ bam_manifest_data' = <<>>
    /\ i' = 1
    /\ pc' = "align"
    /\ UNCHANGED <<args_readFilesIn, run, di, decompressed_files, exists, dirs,
                   manifestExists, manifest, gzipCalls, starCalls, nSucceeded,
                   prevOk, manifest0, sraVars, qcVars, mesaVars, filterVars>>

\* pair = read_files[i:i+2]
pair == SubSeq(read_files, i, IF i + 1 <= Len(read_files) THEN i + 1 ELSE Len(read_files))

InAlign == pc = "align" /\ i <= Len(read_files)

\* What STAR leaves in its output directory: Aligned...bam when it got as
\* far as writing it.
StarWrites(tree, directory, wrote) ==
    IF wrote THEN [tree EXCEPT ![directory] = @ \cup {StarBam}] ELSE tree

\* The history record of one aligner invocation.
StarCall(exit, tree) ==
    [ pair    |-> pair,
      acc     |-> accession_id(pair),
      prefix  |-> Join(output_subdir(pair), <<>>),
      exit    |-> exit,
      hadBam  |-> bam_files(dirs, output_subdir(pair)) # {},
      atCheck |-> bam_files(tree, output_subdir(pair)) ]

UnchangedByAlign ==
    UNCHANGED <<args_readFilesIn, run, di, decompressed_files, read_files, exists,
                manifestExists, manifest, gzipCalls, prevOk, manifest0,
                sraVars, qcVars, mesaVars, filterVars>>

\* collect_row without the test of line 106.
collect_row_unchecked(data, acc, bam_file_path) == Append(data, <<acc, bam_file_path>>)

\* lines 105-109: the row is collected when find_bam_file returned a path
collect_row(data, acc, bam_file_path) ==
    IF bam_file_path # None THEN Append(data, <<acc, bam_file_path>>) ELSE data

\* StarExitZero writing the collected row to the ledger at once, inside the
\* loop.
StarExitZeroWritesNow ==
    /\ InAlign
    /\ \E wrote \in BOOLEAN :
         LET tree == StarWrites(dirs, output_subdir(pair), wrote)
         IN  \E bam_file_path \in find_bam_file(tree, output_subdir(pair)) :
                /\ dirs' = tree
                /\ bam_manifest_data' =
                       collect_row(bam_manifest_data, accession_id(pair), bam_file_path)
                /\ manifest' =
                       write_bam_manifest(manifest,
                           collect_row(<<>>, accession_id(pair), bam_file_path))
                /\ starCalls' = Append(starCalls, StarCall(0, tree))
                /\ nSucceeded' =
                       nSucceeded + (IF Succeeded(StarCall(0, tree)) THEN 1 ELSE 0)
    /\ i' = i + 2
    /\ UNCHANGED pc
    /\ UNCHANGED <<args_readFilesIn, run, di, decompressed_files, read_files, exists,
                   manifestExists, gzipCalls, prevOk, manifest0, sraVars, qcVars, mesaVars, filterVars>>

\* lines 104-109: STAR exits 0
StarExitZero ==
    /\ InAlign
    /\ \E wrote \in BOOLEAN :
         LET tree == StarWrites(dirs, output_subdir(pair), wrote)
         IN  \E bam_file_path \in find_bam_file(tree, output_subdir(pair)) :
                /\ dirs' = tree
                /\ bam_manifest_data' =
                       collect_row(bam_manifest_data, accession_id(pair), bam_file_path)
                /\ starCalls' = Append(starCalls, StarCall(0, tree))
                /\ nSucceeded' =
                       nSucceeded + (IF Succeeded(StarCall(0, tree)) THEN 1 ELSE 0)
    /\ i' = i + 2
    /\ UNCHANGED pc
    /\ UnchangedByAlign

\* StarNonZero without the except clause of lines 110-111: the
\* CalledProcessError ends the process.
StarNonZeroRaises ==
    /\ InAlign
    /\ starCalls' = Append(starCalls, StarCall(1, dirs))
    /\ pc' = "aborted"
    /\ UNCHANGED <<i, dirs, bam_manifest_data, nSucceeded>>
    /\ UnchangedByAlign

\* StarNonZero with one retry: after a first non-zero exit the loop stays
\* on the pair.
StarNonZeroRetries ==
    /\ InAlign
    /\ \E wrote \in BOOLEAN :
         LET tree == StarWrites(dirs, output_subdir(pair), wrote)
         IN  /\ dirs' = tree
             /\ starCalls' = Append(starCalls, StarCall(1, tree))
    /\ i' = IF starCalls # <<>> /\ Last(starCalls).pair = pair THEN i + 2 ELSE i
    /\ UNCHANGED <<pc, bam_manifest_data, nSucceeded>>
    /\ UnchangedByAlign

\* lines 110-111: STAR exits non-zero, CalledProcessError is caught and the
\* loop goes on
StarNonZero ==
    /\ InAlign
    /\ \E wrote \in BOOLEAN :
         LET tree == StarWrites(dirs, output_subdir(pair), wrote)
         IN  /\ dirs' = tree
             /\ starCalls' = Append(starCalls, StarCall(1, tree))
    /\ i' = i + 2
    /\ UNCHANGED <<pc, bam_manifest_data, nSucceeded>>
    /\ UnchangedByAlign

\* line 104: STAR cannot be started; the OSError is caught nowhere and the
\* process ends before line 113
StarOSError ==
    /\ InAlign
    /\ starCalls' = Append(starCalls, StarCall(-1, dirs))
    /\ pc' = "aborted"
    /\ UNCHANGED <<i, dirs, bam_manifest_data, nSucceeded>>
    /\ UnchangedByAlign

\* line 113: after the loop, write_bam_manifest(bam_manifest_data, ...)
WriteManifest ==
    /\ pc = "align"
    /\ i > Len(read_files)
    /\ manifest' = write_bam_manifest(manifest, bam_manifest_data)
    /\ manifestExists' = TRUE
    /\ pc' = "done"
    /\ UNCHANGED <<args_readFilesIn, run, di, decompressed_files, read_files, i,
                   bam_manifest_data, exists, dirs, gzipCalls, starCalls,
                   nSucceeded, prevOk, manifest0, sraVars, qcVars, mesaVars, filterVars>>

NextAlign ==
    \/ StartRun
    \/ DecompressPlain
    \/ DecompressAlready
    \/ GzipOk
    \/ GzipFail
    \/ GzipOSError
    \/ DecompressReturn
    \/ StarExitZero
    \/ StarNonZero
    \/ StarOSError
    \/ WriteManifest

SpecAlign == InitAlign /\ [][NextAlign]_vars

\* -------------------------------------------------------- sra_accessions.py
\* Longest accession file, in lines after the header.
MaxLines == 3

\* str.strip() for the one whitespace character of the model
RECURSIVE Strip(_)
Strip(line) ==
    IF line = <<>> THEN line
    ELSE IF Head(line) = " " THEN Strip(Tail(line))
    ELSE IF Last(line) = " " THEN Strip(SubSeq(line, 1, Len(line) - 1))
    ELSE line

HeaderLine == <<"i", "d">>

\* Lines of an accession file: two accessions, one with spaces around it,
\* and a blank line.
BodyLines == { <<"S", "1">>, <<" ", "S", "2", " ">>, <<"S", "3">>, <<" ">> }

RECURSIVE SeqsUpTo(_, _)
SeqsUpTo(S, n) ==
    IF n = 0 THEN {<<>>}
    ELSE SeqsUpTo(S, n - 1)
           \cup {Append(q, x) : q \in {r \in SeqsUpTo(S, n - 1) : Len(r) = n - 1}, x \in S}

\* The accession files: the empty file, or a header and up to MaxLines lines.
AccessionFiles == {<<>>} \cup {<<HeaderLine>> \o b : b \in SeqsUpTo(BodyLines, MaxLines)}

\* line 42: [line.strip() for line in file if line.strip()]
RECURSIVE StrippedNonEmpty(_)
StrippedNonEmpty(lines) ==
    IF lines = <<>> THEN <<>>
    ELSE IF Strip(Head(lines)) # <<>>
         THEN <<Strip(Head(lines))>> \o StrippedNonEmpty(Tail(lines))
         ELSE StrippedNonEmpty(Tail(lines))

InitSra ==
    /\ accession_file \in AccessionFiles
    /\ download_has \in SUBSET {x \in {Strip(l) : l \in BodyLines} : x # <<>>}
    /\ spc = "start"
    /\ sra_numbers = <<>>
    /\ si = 1
    /\ prefetchCalls = <<>>
    /\ fastqCalls = <<>>
    /\ AlignIdle
    /\ QcIdle
    /\ MesaIdle
    /\ FilterIdle

\* lines 40-42: the header is skipped; next(file) on an empty file raises
\* StopIteration, which nothing catches
ReadAccessions ==
    /\ spc = "start"
    /\ IF accession_file = <<>>
       THEN spc' = "aborted" /\ UNCHANGED sra_numbers
       ELSE /\ sra_numbers' = StrippedNonEmpty(Tail(accession_file))
            /\ spc' = "download"
    /\ si' = 1
    /\ UNCHANGED <<accession_file, download_has, prefetchCalls, fastqCalls>>
    /\ UNCHANGED <<alignVars, qcVars, mesaVars, filterVars>>

sra_id == sra_numbers[si]

InDownload == spc = "download" /\ si <= Len(sra_numbers)

\* line 48: prefetch exits 0; the archive is then at {dir}/{id}/{id}.sra, or
\* under another name
PrefetchOk ==
    /\ InDownload
    /\ prefetchCalls' = Append(prefetchCalls, [id |-> sra_id, exit |-> 0])
    /\ \E present \in BOOLEAN :
         download_has' = IF present THEN download_has \cup {sra_id} ELSE download_has
    /\ si' = si + 1
    /\ UNCHANGED <<accession_file, spc, sra_numbers, fastqCalls>>
    /\ UNCHANGED <<alignVars, qcVars, mesaVars, filterVars>>

\* line 48: check=True and no try: a non-zero exit of prefetch raises
\* CalledProcessError out of download_sra_files and out of the script
PrefetchNonZero ==
    /\ InDownload
    /\ prefetchCalls' = Append(prefetchCalls, [id |-> sra_id, exit |-> 1])
    /\ spc' = "aborted"
    /\ UNCHANGED <<accession_file, download_has, sra_numbers, si, fastqCalls>>
    /\ UNCHANGED <<alignVars, qcVars, mesaVars, filterVars>>

\* line 48: prefetch cannot be started
PrefetchOSError ==
    /\ InDownload
    /\ prefetchCalls' = Append(prefetchCalls, [id |-> sra_id, exit |-> -1])
    /\ spc' = "aborted"
    /\ UNCHANGED <<accession_file, download_has, sra_numbers, si, fastqCalls>>
    /\ UNCHANGED <<alignVars, qcVars, mesaVars, filterVars>>

\* lines 50, 74-75: return sra_numbers; generate_fastq_files(sra_numbers, ...)
DownloadReturn ==
    /\ spc = "download"
    /\ si > Len(sra_numbers)
    /\ spc' = "fastq"
    /\ si' = 1
    /\ UNCHANGED <<accession_file, download_has, sra_numbers, prefetchCalls, fastqCalls>>
    /\ UNCHANGED <<alignVars, qcVars, mesaVars, filterVars>>

InFastq == spc = "fastq" /\ si <= Len(sra_numbers)

\* FastqMissing leaving the loop (break in place of continue).
FastqMissingBreaks ==
    /\ InFastq
    /\ sra_id \notin download_has
    /\ si' = Len(sra_numbers) + 1
    /\ UNCHANGED <<accession_file, download_has, spc, sra_numbers, prefetchCalls, fastqCalls>>
    /\ UNCHANGED <<alignVars, qcVars, mesaVars, filterVars>>

\* lines 55-57: the .sra file is missing: reported, and the loop goes on
FastqMissing ==
    /\ InFastq
    /\ sra_id \notin download_has
    /\ si' = si + 1
    /\ UNCHANGED <<accession_file, download_has, spc, sra_numbers, prefetchCalls, fastqCalls>>
    /\ UNCHANGED <<alignVars, qcVars, mesaVars, filterVars>>

\* line 65: fastq-dump exits 0
FastqDumpOk ==
    /\ InFastq
    /\ sra_id \in download_has
    /\ fastqCalls' = Append(fastqCalls, [id |-> sra_id, exit |-> 0])
    /\ si' = si + 1
    /\ UNCHANGED <<accession_file, download_has, spc, sra_numbers, prefetchCalls>>
    /\ UNCHANGED <<alignVars, qcVars, mesaVars, filterVars>>

\* line 65: check=True and no try: a non-zero exit of fastq-dump, or a
\* fastq-dump that cannot be started, ends the script
FastqDumpRaises ==
    /\ InFastq
    /\ sra_id \in download_has
    /\ \E e \in {1, -1} : fastqCalls' = Append(fastqCalls, [id |-> sra_id, exit |-> e])
    /\ spc' = "aborted"
    /\ UNCHANGED <<accession_file, download_has, sra_numbers, si, prefetchCalls>>
    /\ UNCHANGED <<alignVars, qcVars, mesaVars, filterVars>>

\* line 77: print("Process completed.")
SraCompleted ==
    /\ spc = "fastq"
    /\ si > Len(sra_numbers)
    /\ spc' = "done"
    /\ UNCHANGED <<accession_file, download_has, sra_numbers, si, prefetchCalls, fastqCalls>>
    /\ UNCHANGED <<alignVars, qcVars, mesaVars, filterVars>>

NextSra ==
    \/ ReadAccessions
    \/ PrefetchOk
    \/ PrefetchNonZero
    \/ PrefetchOSError
    \/ DownloadReturn
    \/ FastqMissing
    \/ FastqDumpOk
    \/ FastqDumpRaises
    \/ SraCompleted

SpecSra == InitSra /\ [][NextSra]_vars

\* ------------------------------------------------------- bam_qc_samtools.py
\* Number of sample subdirectories under the base directory.
MaxDirs == 2

SampleNames == << <<"A">>, <<"B">>, <<"C">>, <<"D">> >>

XBam == <<"x">> \o BAM

LogOut == <<"L", ".", "o", "u", "t">>

ManifestName == <<"m", ".", "t", "x", "t">>

FlagstatSuffix == <<"_", "f", "l", "a", "g", "s", "t", "a", "t", ".", "t", "x", "t">>

StatsSuffix == <<"_", "s", "t", "a", "t", "s", ".", "t", "x", "t">>

QcSubdirs == {Join(output_dir_base, SampleNames[k]) : k \in 1..MaxDirs}

\* The trees the QC script is started on: the base directory with a BAM
\* and the ledger or not, each sample directory with STAR's BAM and log or
\* not.
QcTrees ==
    {t \in [{output_dir_base} \cup QcSubdirs -> SUBSET {XBam, ManifestName, StarBam, LogOut}] :
        /\ t[output_dir_base] \subseteq {XBam, ManifestName}
        /\ \A d \in QcSubdirs : t[d] \subseteq {StarBam, LogOut}}

InitQc ==
    /\ qcTree \in QcTrees
    /\ qpc = "walk"
    /\ root = output_dir_base
    /\ files = qcTree[output_dir_base]
    /\ todoDirs = QcSubdirs
    /\ bam_file = <<>>
    /\ qcCalls = <<>>
    /\ qcWritten = {}
    /\ AlignIdle
    /\ SraIdle
    /\ MesaIdle
    /\ FilterIdle

\* lines 35, 49: os.path.join(output_dir, os.path.basename(bam_file) + suffix)
report_path(output_dir, bam, suffix) == Join(output_dir, Basename(bam) \o suffix)

\* lines 33-39, 47-53: the report is written when returncode == 0
write_report(written, returncode, path) ==
    IF returncode = 0 THEN written \cup {path} ELSE written

\* lines 57-58: a name of the listing that is no BAM file is passed over
QcSkipFile ==
    /\ qpc = "walk"
    /\ \E f \in files :
         /\ ~EndsWith(f, BAM)
         /\ files' = files \ {f}
    /\ UNCHANGED <<qcTree, qpc, root, todoDirs, bam_file, qcCalls, qcWritten>>
    /\ UNCHANGED <<alignVars, sraVars, mesaVars, filterVars>>

\* after_flagstat with a return in the else branch of line 38: the stats
\* invocation is made only after a flagstat that exited 0.
after_flagstat_returning(returncode) ==
    /\ qcWritten' = write_report(qcWritten, returncode,
                                 report_path(root, bam_file', FlagstatSuffix))
    /\ qcTree' = IF returncode = 0
                 THEN [qcTree EXCEPT ![root] = @ \cup {Basename(bam_file') \o FlagstatSuffix}]
                 ELSE qcTree
    /\ qpc' = IF returncode = 0 THEN "stats" ELSE "walk"

\* After samtools flagstat has ended with `returncode`: lines 33-39, then
\* on to line 42.
after_flagstat(returncode) ==
    /\ qcWritten' = write_report(qcWritten, returncode,
                                 report_path(root, bam_file', FlagstatSuffix))
    /\ qcTree' = IF returncode = 0
                 THEN [qcTree EXCEPT ![root] = @ \cup {Basename(bam_file') \o FlagstatSuffix}]
                 ELSE qcTree
    /\ qpc' = "stats"

\* lines 57-60, 28-39: the next BAM of the listing; samtools flagstat runs
\* and ends with exit 0 or non-zero (subprocess.run without check)
SamtoolsFlagstat ==
    /\ qpc = "walk"
    /\ \E f \in files :
         /\ EndsWith(f, BAM)
         /\ files' = files \ {f}
         /\ bam_file' = Join(root, f)
         /\ \E returncode \in {0, 1} :
              /\ qcCalls' = Append(qcCalls, [cmd |-> "flagstat", bam |-> Join(root, f),
                                             exit |-> returncode])
              /\ after_flagstat(returncode)
    /\ UNCHANGED <<root, todoDirs>>
    /\ UNCHANGED <<alignVars, sraVars, mesaVars, filterVars>>

\* line 32: samtools cannot be started
FlagstatOSError ==
    /\ qpc = "walk"
    /\ \E f \in files :
         /\ EndsWith(f, BAM)
         /\ files' = files \ {f}
         /\ bam_file' = Join(root, f)
         /\ qcCalls' = Append(qcCalls, [cmd |-> "flagstat", bam |-> Join(root, f),
                                        exit |-> -1])
    /\ qpc' = "aborted"
    /\ UNCHANGED <<qcTree, root, todoDirs, qcWritten>>
    /\ UNCHANGED <<alignVars, sraVars, mesaVars, filterVars>>

\* lines 42-53: samtools stats runs and ends with exit 0 or non-zero
SamtoolsStats ==
    /\ qpc = "stats"
    /\ \E returncode \in {0, 1} :
         /\ qcCalls' = Append(qcCalls, [cmd |-> "stats", bam |-> bam_file,
                                        exit |-> returncode])
         /\ qcWritten' = write_report(qcWritten, returncode,
                                      report_path(root, bam_file, StatsSuffix))
         /\ qcTree' = IF returncode = 0
                      THEN [qcTree EXCEPT ![root] = @ \cup {Basename(bam_file) \o StatsSuffix}]
                      ELSE qcTree
    /\ qpc' = "walk"
    /\ UNCHANGED <<root, files, todoDirs, bam_file>>
    /\ UNCHANGED <<alignVars, sraVars, mesaVars, filterVars>>

\* line 46: samtools cannot be started
StatsOSError ==
    /\ qpc = "stats"
    /\ qcCalls' = Append(qcCalls, [cmd |-> "stats", bam |-> bam_file, exit |-> -1])
    /\ qpc' = "aborted"
    /\ UNCHANGED <<qcTree, root, files, todoDirs, bam_file, qcWritten>>
    /\ UNCHANGED <<alignVars, sraVars, mesaVars, filterVars>>

\* line 56: os.walk lists the next directory, in no fixed order
WalkNextDir ==
    /\ qpc = "walk"
    /\ files = {}
    /\ \E d \in todoDirs :
         /\ root' = d
         /\ files' = qcTree[d]
         /\ todoDirs' = todoDirs \ {d}
    /\ UNCHANGED <<qcTree, qpc, bam_file, qcCalls, qcWritten>>
    /\ UNCHANGED <<alignVars, sraVars, mesaVars, filterVars>>

\* line 56: os.walk is exhausted
WalkDone ==
    /\ qpc = "walk"
    /\ files = {}
    /\ todoDirs = {}
    /\ qpc' = "done"
    /\ UNCHANGED <<qcTree, root, files, todoDirs, bam_file, qcCalls, qcWritten>>
    /\ UNCHANGED <<alignVars, sraVars, mesaVars, filterVars>>

NextQc ==
    \/ QcSkipFile
    \/ SamtoolsFlagstat
    \/ FlagstatOSError
    \/ SamtoolsStats
    \/ StatsOSError
    \/ WalkNextDir
    \/ WalkDone

SpecQc == InitQc /\ [][NextQc]_vars

\* ------------------------------------------------ reading the state back
IsPrefix(a, b) == Len(a) <= Len(b) /\ SubSeq(b, 1, Len(a)) = a

\* text.split(sep)
RECURSIVE Split(_, _)
Split(text, sep) ==
    LET I == {k \in 1..Len(text) : text[k] = sep}
    IN  IF I = {} THEN <<text>>
        ELSE <<SubSeq(text, 1, Min(I) - 1)>>
                 \o Split(SubSeq(text, Min(I) + 1, Len(text)), sep)

\* The rows a reader of the ledger gets: one per line, its tab-separated
\* fields.
ParseManifest(content) ==
    LET segs  == Split(content, "\n")
        lines == IF Last(segs) = <<>> THEN SubSeq(segs, 1, Len(segs) - 1) ELSE segs
    IN  [k \in 1..Len(lines) |-> Split(lines[k], "\t")]

\* What this run has added to bam_manifest.txt.
Appended == SubSeq(manifest, Len(manifest0) + 1, Len(manifest))

\* The samples the loop of align_reads forms from a list: fs[i:i+2] for
\* i = 0, 2, 4, ...
PairsOf(fs) ==
    [j \in 1..((Len(fs) + 1) \div 2) |->
        SubSeq(fs, 2 * j - 1, IF 2 * j <= Len(fs) THEN 2 * j ELSE Len(fs))]

\* This run's aligner invocations that succeeded, in order.
SuccCalls == SelectSeq(starCalls, Succeeded)

\* An uncaught exception ended the run right after the last aligner call.
AbortedByStar == pc = "aborted" /\ starCalls # <<>>

\* ------------------------------------------------- differential_splicing.py

\* line 41: --n-threads default
DefaultThreads == 10

\* Values --n-threads is given on the command line.
ThreadArgs == {1, 24}

Digits == <<"0", "1", "2", "3", "4", "5", "6", "7", "8", "9">>

\* str(n) for n >= 0
RECURSIVE Str(_)
Str(n) ==
    IF n < 10 THEN <<Digits[n + 1]>>
    ELSE Str(n \div 10) \o <<Digits[(n % 10) + 1]>>

MESA == <<"m", "e", "s", "a">>
BAM_TO_JUNC_BED == <<"b", "a", "m", "_", "t", "o", "_", "j", "u", "n", "c", "_", "b", "e", "d">>
QUANT == <<"q", "u", "a", "n", "t">>
ManifestSuffix == <<"_", "m", "a", "n", "i", "f", "e", "s", "t", ".", "t", "x", "t">>

Opt(c) == <<"-", c>>

\* Command lines: --manifest, --output-prefix and --n-threads vary.
MesaManifests == { <<"b", ".", "t", "x", "t">>, <<"r", "/", "b">> }
MesaPrefixes == { <<"o">>, <<"r", "/", "o">>, <<"r", "_", "1">> }

MesaArgs ==
    [manifest : MesaManifests, annotations : {<<"a">>}, genome : {<<"g">>},
     output_prefix : MesaPrefixes, n_threads : ThreadArgs \cup {DefaultThreads}]

InitMesa ==
    /\ args \in MesaArgs
    /\ mpc = "start"
    /\ quant_manifest = <<>>
    /\ mesaCalls = <<>>
    /\ AlignIdle
    /\ SraIdle
    /\ QcIdle
    /\ FilterIdle

\* lines 6-13
bam_to_junc_bed_command(m, a, g, o, n) ==
    <<MESA, BAM_TO_JUNC_BED, Opt("m"), m, Opt("a"), a, Opt("g"), g, Opt("o"), o,
      Opt("n"), Str(n)>>

\* lines 23-27
quant_command(m, o) == <<MESA, QUANT, Opt("m"), m, Opt("o"), o>>

\* line 49
quant_manifest_of(output_prefix) == output_prefix \o ManifestSuffix

MesaCall(command, exit) == [command |-> command, exit |-> exit]

JuncBedCall(exit) ==
    MesaCall(bam_to_junc_bed_command(args.manifest, args.annotations, args.genome,
                                     args.output_prefix, args.n_threads), exit)

\* lines 46, 16-17, 49: bam_to_junc_bed exits 0
JuncBedOk ==
    /\ mpc = "start"
    /\ mesaCalls' = Append(mesaCalls, JuncBedCall(0))
    /\ quant_manifest' = quant_manifest_of(args.output_prefix)
    /\ mpc' = "quant"
    /\ UNCHANGED args
    /\ UNCHANGED <<alignVars, sraVars, qcVars, filterVars>>

\* JuncBedNonZero without the except clause of lines 18-19.
JuncBedNonZeroPropagates ==
    /\ mpc = "start"
    /\ mesaCalls' = Append(mesaCalls, JuncBedCall(1))
    /\ mpc' = "aborted"
    /\ UNCHANGED <<args, quant_manifest>>
    /\ UNCHANGED <<alignVars, sraVars, qcVars, filterVars>>

\* lines 46, 16, 18-19, 49: bam_to_junc_bed exits non-zero; the
\* CalledProcessError is caught and printed, and __main__ goes on
JuncBedNonZero ==
    /\ mpc = "start"
    /\ mesaCalls' = Append(mesaCalls, JuncBedCall(1))
    /\ quant_manifest' = quant_manifest_of(args.output_prefix)
    /\ mpc' = "quant"
    /\ UNCHANGED args
    /\ UNCHANGED <<alignVars, sraVars, qcVars, filterVars>>

\* line 16: mesa cannot be started; the OSError is not caught
JuncBedOSError ==
    /\ mpc = "start"
    /\ mesaCalls' = Append(mesaCalls, JuncBedCall(-1))
    /\ mpc' = "aborted"
    /\ UNCHANGED <<args, quant_manifest>>
    /\ UNCHANGED <<alignVars, sraVars, qcVars, filterVars>>

QuantCall(exit) == MesaCall(quant_command(quant_manifest, args.output_prefix), exit)

\* lines 50, 30-31: quant exits 0
QuantOk ==
    /\ mpc = "quant"
    /\ mesaCalls' = Append(mesaCalls, QuantCall(0))
    /\ mpc' = "done"
    /\ UNCHANGED <<args, quant_manifest>>
    /\ UNCHANGED <<alignVars, sraVars, qcVars, filterVars>>

\* lines 50, 30, 32-33: quant exits non-zero; caught and printed
QuantNonZero ==
    /\ mpc = "quant"
    /\ mesaCalls' = Append(mesaCalls, QuantCall(1))
    /\ mpc' = "done"
    /\ UNCHANGED <<args, quant_manifest>>
    /\ UNCHANGED <<alignVars, sraVars, qcVars, filterVars>>

\* line 30: mesa cannot be started
QuantOSError ==
    /\ mpc = "quant"
    /\ mesaCalls' = Append(mesaCalls, QuantCall(-1))
    /\ mpc' = "aborted"
    /\ UNCHANGED <<args, quant_manifest>>
    /\ UNCHANGED <<alignVars, sraVars, qcVars, filterVars>>

NextMesa ==
    \/ JuncBedOk
    \/ JuncBedNonZero
    \/ JuncBedOSError
    \/ QuantOk
    \/ QuantNonZero
    \/ QuantOSError

SpecMesa == InitMesa /\ [][NextMesa]_vars



\* ----------------------------------------------------------- filter_data.py

MaxCols == 3
MaxRows == 2

\* line 31: 0.05; the values of the table are in hundredths
Threshold == 5

\* The values of a comparison column: below the threshold, and the
\* threshold itself.
PValues == {1, Threshold}

CLUSTERID == <<"c", "l", "u", "s", "t", "e", "r", "I", "D">>

G1 == <<"g", "1">>
G2 == <<"g", "2">>

ManifestRow(id, type) == [ID |-> <<id>>, Type |-> type]

\* Manifests: three accessions in two groups; an accession listed twice;
\* two accessions of one group.
FilterManifests ==
    { <<ManifestRow("A", G1), ManifestRow("B", G1), ManifestRow("C", G2)>>,
      <<ManifestRow("A", G1), ManifestRow("B", G2), ManifestRow("A", G2)>>,
      <<ManifestRow("A", G1), ManifestRow("C", G1)>> }

\* Column names a table can have beside clusterID: pairs of accessions of
\* the manifests, pairs with an accession no manifest has, a name without
\* '_' and a name with two.
ColumnNames ==
    << <<"A", "_", "B">>, <<"A", "_", "C">>, <<"B", "_", "C">>, <<"A", "_", "Z">>,
       <<"Z", "_", "Y">>, <<"n">>, <<"A", "_", "B", "_", "C">> >>

\* The names of a set of positions of ColumnNames, in that order.
RECURSIVE NamesAt(_, _)
NamesAt(I, from) ==
    IF from > Len(ColumnNames) THEN <<>>
    ELSE (IF from \in I THEN <<ColumnNames[from]>> ELSE <<>>) \o NamesAt(I, from + 1)

Headers ==
    { <<CLUSTERID>> \o NamesAt(I, 1) :
        I \in {J \in SUBSET (1..Len(ColumnNames)) : Cardinality(J) <= MaxCols} }

\* The rows of a table with n columns: row k has clusterID k.
RowsOf(n, m) ==
    { [k \in 1..m |-> <<k>> \o v[k]] : v \in [1..m -> [1..(n - 1) -> PValues]] }

Tables ==
    UNION { { [columns |-> h, rows |-> r] : r \in UNION {RowsOf(Len(h), m) : m \in 0..MaxRows} }
            : h \in Headers }

InitFilter ==
    /\ manifest_file \in FilterManifests
    /\ input_file \in Tables
    /\ fpc = "start"
    /\ id_to_type = <<>>
    /\ valid_columns = <<>>
    /\ final_df = <<>>
    /\ significant_clusters = <<>>
    /\ AlignIdle
    /\ SraIdle
    /\ QcIdle
    /\ MesaIdle

\* line 15: dict(zip(manifest['ID'], manifest['Type'])): a later row of an
\* ID replaces the earlier one
RECURSIVE dict_zip(_)
dict_zip(rows) ==
    IF rows = <<>> THEN <<>>
    ELSE LET d == dict_zip(SubSeq(rows, 1, Len(rows) - 1))
             r == Last(rows)
         IN  [k \in (DOMAIN d) \cup {r.ID} |-> IF k = r.ID THEN r.Type ELSE d[k]]

\* dict.get(key): None for a key the dict does not have
get(d, key) == IF key \in DOMAIN d THEN d[key] ELSE None

\* line 20: "_" in col
HasUnderscore(col) == \E k \in 1..Len(col) : col[k] = "_"

\* line 22: id1, id2 = col.split('_') raises ValueError unless there are
\* exactly two parts
UnpackFails(col) == HasUnderscore(col) /\ Len(Split(col, "_")) # 2

\* lines 19-23
is_valid_comparison(d, col) ==
    IF ~HasUnderscore(col) THEN FALSE
    ELSE LET parts == Split(col, "_")
         IN  get(d, parts[1]) # get(d, parts[2])

\* lines 14-17: the manifest and the table are read
ReadInputs ==
    /\ fpc = "start"
    /\ id_to_type' = dict_zip(manifest_file)
    /\ fpc' = "read"
    /\ UNCHANGED <<manifest_file, input_file, valid_columns, final_df,
                   significant_clusters>>
    /\ UNCHANGED <<alignVars, sraVars, qcVars, mesaVars>>

\* lines 25-26: the list comprehension over df.columns, then clusterID is
\* put first
SelectColumns ==
    /\ fpc = "read"
    /\ \A k \in 1..Len(input_file.columns) : ~UnpackFails(input_file.columns[k])
    /\ LET Valid(col) == is_valid_comparison(id_to_type, col)
       IN  valid_columns' = <<CLUSTERID>> \o SelectSeq(input_file.columns, Valid)
    /\ fpc' = "cols"
    /\ UNCHANGED <<manifest_file, input_file, id_to_type, final_df, significant_clusters>>
    /\ UNCHANGED <<alignVars, sraVars, qcVars, mesaVars>>

\* line 22 inside line 25: a column name with more than one '_' raises
\* ValueError out of filter_data
SelectColumnsValueError ==
    /\ fpc = "read"
    /\ \E k \in 1..Len(input_file.columns) : UnpackFails(input_file.columns[k])
    /\ fpc' = "aborted"
    /\ UNCHANGED <<manifest_file, input_file, id_to_type, valid_columns, final_df,
                   significant_clusters>>
    /\ UNCHANGED <<alignVars, sraVars, qcVars, mesaVars>>

\* Position of a column in a header (names are distinct).
ColumnIndex(columns, name) == CHOOSE k \in 1..Len(columns) : columns[k] = name

\* line 28: df[valid_columns]
select_columns(df, names) ==
    [columns |-> names,
     rows |-> [r \in 1..Len(df.rows) |->
                 [c \in 1..Len(names) |-> df.rows[r][ColumnIndex(df.columns, names[c])]]]]

\* line 31: every column other than clusterID is < 0.05
condition(df, row) ==
    \A c \in 1..Len(df.columns) : df.columns[c] # CLUSTERID => row[c] < Threshold

\* lines 28-37, 54: rows are filtered, the result is written and the
\* clusterID column returned
FilterRows ==
    /\ fpc = "cols"
    /\ LET filtered_df == select_columns(input_file, valid_columns)
           Keep(row) == condition(filtered_df, row)
           kept == SelectSeq(filtered_df.rows, Keep)
       IN  /\ final_df' = [columns |-> valid_columns, rows |-> kept]
           /\ significant_clusters' =
                 [r \in 1..Len(kept) |-> kept[r][ColumnIndex(valid_columns, CLUSTERID)]]
    /\ fpc' = "done"
    /\ UNCHANGED <<manifest_file, input_file, id_to_type, valid_columns>>
    /\ UNCHANGED <<alignVars, sraVars, qcVars, mesaVars>>

NextFilter ==
    \/ ReadInputs
    \/ SelectColumns
    \/ SelectColumnsValueError
    \/ FilterRows

SpecFilter == InitFilter /\ [][NextFilter]_vars

\* ----------------------------------------------------------------- claims

\* C1: a non-zero exit of STAR for a pair does not halt the batch: the run
\* is never ended by a non-zero exit, the aligner is invoked on the pairs of
\* the list in input order with none left out, and at the end of the batch
\* the manifest has been written with one row per pair that succeeded.
C1_NonZeroExitDoesNotHalt ==
    /\ AbortedByStar => Last(starCalls).exit = -1
    /\ Len(starCalls) <= Len(PairsOf(read_files))
    /\ \A k \in 1..Len(starCalls) : starCalls[k].pair = PairsOf(read_files)[k]
    /\ pc = "align" => i = 2 * Len(starCalls) + 1
    /\ pc = "done" =>
          /\ Len(starCalls) = Len(PairsOf(read_files))
          /\ IsPrefix(manifest0, manifest)
          /\ Len(ParseManifest(Appended)) = Len(SuccCalls)
          /\ \A k \in 1..Len(SuccCalls) :
                ParseManifest(Appended)[k][1] = accession_id(SuccCalls[k].pair)

\* C1 witness: a finished batch in which a pair's STAR run failed and the
\* next pair was aligned and got its row.
C1_Witness ==
    /\ pc = "done"
    /\ \E k \in 1..(Len(starCalls) - 1) :
          starCalls[k].exit = 1 /\ Succeeded(starCalls[k + 1])
    /\ Appended # <<>>

\* A list of whole pairs, the two files of each with the same, non-empty
\* accession ID.
WellFormed(fs) ==
    /\ Len(fs) % 2 = 0
    /\ \A j \in 1..(Len(fs) \div 2) :
          /\ accession_id(<<fs[2 * j - 1]>>) # <<>>
          /\ accession_id(<<fs[2 * j - 1]>>) = accession_id(<<fs[2 * j]>>)

\* C3: after any sequence of invocations in which k sample runs succeeded,
\* bam_manifest.txt holds exactly k rows (the file starts empty or absent).
\* Stated for the well-formed lists, between invocations.
C3_ManifestCountsSuccesses ==
    (pc \in {"idle", "done", "aborted"} /\ WellFormed(args_readFilesIn)) =>
        Len(ParseManifest(manifest)) = nSucceeded

\* C4: a list of 2n files gives exactly n aligner invocations, the j-th on
\* (file 2j-1, file 2j) under their decompressed names, whatever gzip did.
C4_PairsPreserved ==
    (pc = "done" /\ Len(args_readFilesIn) % 2 = 0) =>
        /\ Len(starCalls) = Len(args_readFilesIn) \div 2
        /\ \A j \in 1..Len(starCalls) :
              starCalls[j].pair =
                  <<Dec(args_readFilesIn[2 * j - 1]), Dec(args_readFilesIn[2 * j])>>

\* C5: with a list of odd length no external tool (gzip, STAR) is invoked.
C5_OddLengthRejected ==
    Len(args_readFilesIn) % 2 = 1 => (gzipCalls = <<>> /\ starCalls = <<>>)

\* C6: a pair that succeeded in an earlier invocation and whose subdirectory
\* still holds a BAM is not passed to the aligner again.  Stated for the
\* well-formed lists.
C6_SecondRunSkips ==
    WellFormed(args_readFilesIn) =>
        \A k \in 1..Len(starCalls) :
            ~(starCalls[k].pair \in prevOk /\ starCalls[k].hadBam)

\* C7: bam_manifest.txt is append-only: no step removes the file or changes
\* what it already holds, and the write at the end of a batch adds exactly
\* the collected entries, in order, one tab-separated row each, creating the
\* file when it is missing.
C7_AppendOnly ==
    [][ /\ IsPrefix(manifest, manifest')
        /\ manifestExists => manifestExists'
        /\ (pc = "align" /\ pc' = "done") =>
              /\ manifestExists'
              /\ ParseManifest(SubSeq(manifest', Len(manifest) + 1, Len(manifest')))
                    = bam_manifest_data ]_vars

\* C7 witness: a second batch has added two rows to a ledger that already
\* held rows.
C7_Witness ==
    /\ pc = "done"
    /\ manifest0 # <<>>
    /\ Len(bam_manifest_data) = 2
    /\ manifest # manifest0

\* C8: the rows a run collects are exactly those of its aligner invocations
\* that exited 0 with a BAM in the subdirectory at check time, each row
\* (accession, one of the BAM files found); failed and BAM-less invocations
\* give no row and do not end the run; the rows written are the rows
\* collected.
C8_RowOnlyForBam ==
    /\ Len(bam_manifest_data) = Len(SuccCalls)
    /\ \A k \in 1..Len(bam_manifest_data) :
          /\ k <= Len(SuccCalls)
          /\ bam_manifest_data[k][1] = accession_id(SuccCalls[k].pair)
          /\ bam_manifest_data[k][2] \in SuccCalls[k].atCheck
    /\ AbortedByStar => Last(starCalls).exit = -1
    /\ pc \in {"align", "done"} =>
          \A k \in 1..Len(starCalls) : starCalls[k].exit \in {0, 1}
    /\ pc = "done" =>
          /\ Len(starCalls) = Len(PairsOf(read_files))
          /\ ParseManifest(Appended) = bam_manifest_data

\* C8 witness: a finished batch with one invocation that exited 0 without
\* any BAM, or failed beside a BAM, and another that succeeded.
C8_Witness ==
    /\ pc = "done"
    /\ \E k \in 1..Len(starCalls) : Succeeded(starCalls[k])
    /\ \E k \in 1..Len(starCalls) :
          \/ starCalls[k].exit = 0 /\ starCalls[k].atCheck = {}
          \/ starCalls[k].exit = 1 /\ starCalls[k].atCheck # {}

\* C9: the aligner is never invoked on a pair whose accession ID is empty or
\* whose two files resolve to different accession IDs, and no row is
\* collected for such a pair.
C9_MalformedIdentifier ==
    /\ \A k \in 1..Len(starCalls) :
          LET p == starCalls[k].pair
          IN  /\ accession_id(p) # <<>>
              /\ Len(p) = 2 => accession_id(<<p[2]>>) = accession_id(<<p[1]>>)
    /\ \A k \in 1..Len(bam_manifest_data) : bam_manifest_data[k][1] # <<>>

\* C2: a non-zero exit of prefetch for one accession does not prevent the
\* processing of the others: when the script has ended, every other
\* accession of the list has been retrieved and, its .sra file being
\* present, converted.
C2_RetrievalFailureIsolated ==
    ( /\ spc \in {"done", "aborted"}
      /\ \A k \in 1..Len(prefetchCalls) : prefetchCalls[k].exit \in {0, 1}
      /\ \A k \in 1..Len(fastqCalls) : fastqCalls[k].exit = 0 ) =>
        \A f \in {k \in 1..Len(prefetchCalls) : prefetchCalls[k].exit = 1} :
            \A j \in {n \in 1..Len(sra_numbers) : sra_numbers[n] # prefetchCalls[f].id} :
                /\ \E k \in 1..Len(prefetchCalls) : prefetchCalls[k].id = sra_numbers[j]
                /\ sra_numbers[j] \in download_has =>
                      \E k \in 1..Len(fastqCalls) : fastqCalls[k].id = sra_numbers[j]

\* os.path.dirname
Dirname(p) ==
    LET I == {k \in 1..Len(p) : p[k] = "/"}
    IN  IF I = {} THEN <<>> ELSE SubSeq(p, 1, Max(I) - 1)

\* The BAM files under the base directory.
AllBams ==
    UNION {{Join(d, f) : f \in {n \in qcTree[d] : EndsWith(n, BAM)}} : d \in DOMAIN qcTree}

\* The report file of a samtools invocation.
ReportOf(c) ==
    Join(Dirname(c.bam),
         Basename(c.bam) \o (IF c.cmd = "flagstat" THEN FlagstatSuffix ELSE StatsSuffix))

\* C10: the samtools invocations come in pairs, flagstat then stats on the
\* same BAM, the stats one made whatever flagstat's exit code; the report
\* files written are exactly those of the invocations that exited 0; a
\* non-zero exit never ends the script; and when the walk is over every BAM
\* under the base directory has had its two invocations.
C10_QcIndependentInvocations ==
    /\ \A k \in 1..Len(qcCalls) :
          IF k % 2 = 1
          THEN qcCalls[k].cmd = "flagstat"
          ELSE qcCalls[k].cmd = "stats" /\ qcCalls[k].bam = qcCalls[k - 1].bam
    /\ qpc \in {"walk", "done"} => Len(qcCalls) % 2 = 0
    /\ qpc = "stats" => Len(qcCalls) % 2 = 1 /\ Last(qcCalls).exit \in {0, 1}
    /\ qpc = "aborted" => Last(qcCalls).exit = -1
    /\ qcWritten = {ReportOf(qcCalls[k]) : k \in {j \in 1..Len(qcCalls) : qcCalls[j].exit = 0}}
    /\ qpc = "done" =>
          /\ {qcCalls[k].bam : k \in 1..Len(qcCalls)} = AllBams
          /\ Len(qcCalls) = 2 * Cardinality(AllBams)

\* C10 witness: the walk is over, a flagstat exited non-zero, the stats on
\* the same BAM exited 0, and another BAM was processed after it.
C10_Witness ==
    /\ qpc = "done"
    /\ \E k \in 1..Len(qcCalls) :
          /\ qcCalls[k].cmd = "flagstat"
          /\ qcCalls[k].exit = 1
          /\ k + 2 <= Len(qcCalls)
          /\ qcCalls[k + 1].exit = 0
          /\ ReportOf(qcCalls[k]) \notin qcWritten
          /\ ReportOf(qcCalls[k + 1]) \in qcWritten

\* Directory components to put in front of a basename.
TestDirs == { <<"x", "_", "y">>, <<"/", "t">>, <<"d", "/", "e">> }

\* `a` is what precedes the first "_" of the last "/"-free component of f.
IsAccessionOf(a, f) ==
    \E n \in 0..Len(f) :
        LET b == SubSeq(f, n + 1, Len(f))
        IN  /\ \A k \in 1..Len(b) : b[k] # "/"
            /\ n = 0 \/ f[n] = "/"
            /\ \E m \in 0..Len(b) :
                  /\ a = SubSeq(b, 1, m)
                  /\ \A k \in 1..m : b[k] # "_"
                  /\ m = Len(b) \/ b[m + 1] = "_"

\* C12: the accession ID of every aligner invocation is the part of the
\* basename of the pair's first file before the first "_"; the output
\* prefix is {base_dir}/{accession_id}/ and the manifest key is that ID; the
\* same basename under any other directory, or under none, gives the same
\* ID and the same subdirectory.
C12_AccessionFromBasename ==
    /\ \A k \in 1..Len(starCalls) :
          LET c == starCalls[k]
              f == c.pair[1]
          IN  /\ IsAccessionOf(c.acc, f)
              /\ c.prefix = output_dir_base \o <<"/">> \o c.acc \o
                               (IF c.acc = <<>> THEN <<>> ELSE <<"/">>)
              /\ accession_id(<<Basename(f)>>) = c.acc
              /\ \A d \in TestDirs :
                    /\ accession_id(<<d \o <<"/">> \o Basename(f)>>) = c.acc
                    /\ Join(output_subdir(<<d \o <<"/">> \o Basename(f)>>), <<>>) = c.prefix
    /\ \A k \in 1..Len(bam_manifest_data) :
          k <= Len(SuccCalls) /\ bam_manifest_data[k][1] = SuccCalls[k].acc

\* C12 witness: a finished batch with two rows, one of a pair whose first
\* file has a directory component.
C12_Witness ==
    /\ pc = "done"
    /\ Len(bam_manifest_data) = 2
    /\ \E k \in 1..Len(SuccCalls) : Basename(SuccCalls[k].pair[1]) # SuccCalls[k].pair[1]

\* C13: in every step of decompress_files on a file: a .gz file whose
\* decompressed file exists is not passed to gzip and its decompressed name
\* is appended to the returned list; a file not ending in .gz is passed to
\* no tool and appended unchanged; and gzip is invoked only on the current
\* file, a .gz file whose decompressed file is absent.
C13_DecompressSkipDecision ==
    [][ /\ (InDecompress /\ EndsWith(file, GZ) /\ StripGz(file) \in exists) =>
              /\ gzipCalls' = gzipCalls
              /\ decompressed_files' = Append(decompressed_files, StripGz(file))
        /\ (InDecompress /\ ~EndsWith(file, GZ)) =>
              /\ gzipCalls' = gzipCalls
              /\ starCalls' = starCalls
              /\ decompressed_files' = Append(decompressed_files, file)
        /\ (run' = run /\ gzipCalls' # gzipCalls) =>
              /\ InDecompress
              /\ gzipCalls' = Append(gzipCalls, file)
              /\ EndsWith(file, GZ)
              /\ StripGz(file) \notin exists ]_vars

\* C13 witness: decompress_files has returned without any gzip invocation
\* for a list with a .gz file (already decompressed) and a plain file.
C13_Witness ==
    /\ pc = "align"
    /\ gzipCalls = <<>>
    /\ \E k \in 1..Len(args_readFilesIn) : EndsWith(args_readFilesIn[k], GZ)
    /\ \E k \in 1..Len(args_readFilesIn) : ~EndsWith(args_readFilesIn[k], GZ)
    /\ Len(read_files) = Len(args_readFilesIn)

\* The files of a sequence of aligner invocations, in order.
RECURSIVE FilesOfCalls(_)
FilesOfCalls(calls) ==
    IF calls = <<>> THEN <<>> ELSE Head(calls).pair \o FilesOfCalls(Tail(calls))

NoRepeat(q) == \A j, k \in 1..Len(q) : j # k => q[j] # q[k]

\* C14: within one invocation nothing is retried: each step adds at most
\* one tool invocation to those already made, no file is passed to gzip
\* twice, no file is part of two aligner invocations, gzip is not invoked
\* once the aligner has been, and after the end of the run (written or
\* aborted) no tool is invoked.
C14_NoRetry ==
    [][ run' = run =>
          /\ pc \notin {"done", "aborted"}
          /\ IsPrefix(gzipCalls, gzipCalls')
          /\ IsPrefix(starCalls, starCalls')
          /\ Len(gzipCalls') + Len(starCalls') <= Len(gzipCalls) + Len(starCalls) + 1
          /\ NoRepeat(gzipCalls')
          /\ NoRepeat(FilesOfCalls(starCalls'))
          /\ starCalls # <<>> => gzipCalls' = gzipCalls
          /\ \A k \in 1..Len(starCalls') : Len(starCalls'[k].pair) \in {1, 2} ]_vars

\* C14 witness: a finished batch in which gzip failed on a file, the first
\* aligner invocation failed and a second one was made.
C14_Witness ==
    /\ pc = "done"
    /\ Len(gzipCalls) >= 2
    /\ Len(read_files) < Len(args_readFilesIn)
    /\ Len(starCalls) >= 2
    /\ starCalls[1].exit = 1

\* The accessions of a list whose .sra file is in the set, in list order.
RECURSIVE WithSra(_, _)
WithSra(ids, has) ==
    IF ids = <<>> THEN <<>>
    ELSE (IF Head(ids) \in has THEN <<Head(ids)>> ELSE <<>>) \o WithSra(Tail(ids), has)

CallIds(calls) == [k \in 1..Len(calls) |-> calls[k].id]

\* C15: fastq-dump is invoked for an accession only when its .sra file
\* exists at the check; an accession whose .sra file is missing causes no
\* invocation and the loop moves to the next accession; while the loop has
\* not been ended by an exception the invocations made are exactly the
\* accessions passed so far that had their file, in list order.
C15_MissingSraSkipped ==
    [][ /\ (InFastq /\ sra_id \notin download_has) =>
              /\ fastqCalls' = fastqCalls
              /\ si' = si + 1
              /\ spc' = "fastq"
        /\ fastqCalls' # fastqCalls =>
              /\ InFastq
              /\ sra_id \in download_has
              /\ Len(fastqCalls') = Len(fastqCalls) + 1
              /\ IsPrefix(fastqCalls, fastqCalls')
              /\ Last(fastqCalls').id = sra_id
        /\ spc' \in {"fastq", "done"} =>
              CallIds(fastqCalls') =
                 WithSra(SubSeq(sra_numbers', 1, si' - 1), download_has') ]_vars

\* C15 witness: a completed run in which an accession without its .sra file
\* came before one that was converted.
C15_Witness ==
    /\ spc = "done"
    /\ \E j, k \in 1..Len(sra_numbers) :
         /\ j < k
         /\ sra_numbers[j] \notin download_has
         /\ sra_numbers[k] \in download_has
         /\ \E c \in 1..Len(fastqCalls) : fastqCalls[c].id = sra_numbers[k]

\* C16: in one run the ledger file is touched by one step only, the one
\* after the last pair, which appends all the rows collected; until then,
\* and for good when the run is ended by an exception, the ledger is as it
\* was when the run started, whatever rows the run had collected.
C16_LedgerWrittenOnceAtEnd ==
    [][ /\ (manifest' # manifest \/ manifestExists' # manifestExists) =>
              /\ pc = "align"
              /\ i > Len(read_files)
              /\ pc' = "done"
        /\ (pc # "done" /\ pc' = "done") =>
              /\ Len(starCalls) = Len(PairsOf(read_files))
              /\ manifestExists'
              /\ manifest' = manifest0 \o RowsText(bam_manifest_data)
        /\ pc' \in {"decompress", "align", "aborted"} =>
              /\ manifest' = manifest0'
              /\ run' = run => manifestExists' = manifestExists ]_vars

\* C16 witness: the run was ended by an exception after a sample had
\* succeeded and its row had been collected; the ledger has no row of it.
C16_Witness ==
    /\ pc = "aborted"
    /\ SuccCalls # <<>>
    /\ bam_manifest_data # <<>>
    /\ manifest = manifest0
    /\ Last(starCalls).exit = -1

\* C17: the stage invokes mesa at most twice: first bam_to_junc_bed with
\* the five arguments of the command line, then quant on
\* {output_prefix}_manifest.txt with the same prefix; quant is invoked
\* whether bam_to_junc_bed exited 0 or not, and only a mesa that could not be
\* started ends the stage early.
C17_JuncBedThenQuant ==
    /\ Len(mesaCalls) <= 2
    /\ mpc = "start" <=> (mesaCalls = <<>> /\ mpc # "off")
    /\ mpc = "quant" => Len(mesaCalls) = 1 /\ mesaCalls[1].exit \in {0, 1}
    /\ mpc = "done" => Len(mesaCalls) = 2
    /\ mpc = "aborted" => Last(mesaCalls).exit = -1
    /\ Len(mesaCalls) >= 1 =>
          /\ SubSeq(mesaCalls[1].command, 1, 2) = <<MESA, BAM_TO_JUNC_BED>>
          /\ mesaCalls[1].command =
                <<MESA, BAM_TO_JUNC_BED, <<"-", "m">>, args.manifest,
                  <<"-", "a">>, args.annotations, <<"-", "g">>, args.genome,
                  <<"-", "o">>, args.output_prefix,
                  <<"-", "n">>, mesaCalls[1].command[12]>>
          /\ mesaCalls[1].command[12] \in {<<"1">>, <<"1", "0">>, <<"2", "4">>}
          /\ (mesaCalls[1].command[12] = <<"1", "0">>) <=> (args.n_threads = 10)
    /\ Len(mesaCalls) = 2 =>
          /\ mesaCalls[1].exit \in {0, 1}
          /\ mesaCalls[2].exit \in {0, 1, -1}
          /\ mesaCalls[2].command =
                <<MESA, QUANT, <<"-", "m">>, args.output_prefix \o ManifestSuffix,
                  <<"-", "o">>, args.output_prefix>>

\* C17 witness: bam_to_junc_bed exited non-zero and quant was invoked after
\* it.
C17_Witness ==
    /\ mpc = "done"
    /\ Len(mesaCalls) = 2
    /\ mesaCalls[1].exit = 1
    /\ mesaCalls[2].command[2] = QUANT

\* The accessions of a manifest and the group the manifest gives one: that
\* of its last row for the accession.
ManifestIDs(rows) == {rows[k].ID : k \in 1..Len(rows)}

GroupOf(rows, id) ==
    rows[CHOOSE k \in 1..Len(rows) :
            rows[k].ID = id /\ \A j \in (k + 1)..Len(rows) : rows[j].ID # id].Type

\* A column the claim allows to be kept: X_Y with X and Y in the manifest
\* and in different groups.
CrossGroup(rows, col) ==
    \E x, y \in ManifestIDs(rows) :
        /\ col = x \o <<"_">> \o y
        /\ GroupOf(rows, x) # GroupOf(rows, y)

\* C11: filter_data keeps a column X_Y only if X and Y are both in the
\* manifest and in different groups, and keeps every such column; it keeps a
\* row if and only if all the kept comparison columns of the row are below
\* the threshold; it returns the clusterIDs of the rows kept.
C11_FilterKeepsCrossGroup ==
    /\ fpc \in {"cols", "done"} =>
          /\ valid_columns[1] = CLUSTERID
          /\ \A c \in 2..Len(valid_columns) : CrossGroup(manifest_file, valid_columns[c])
          /\ \A k \in 1..Len(input_file.columns) :
                CrossGroup(manifest_file, input_file.columns[k]) =>
                   \E c \in 2..Len(valid_columns) : valid_columns[c] = input_file.columns[k]
    /\ fpc = "done" =>
          /\ \A r \in 1..Len(input_file.rows) :
                (\E q \in 1..Len(significant_clusters) :
                    significant_clusters[q] = input_file.rows[r][1])
                <=> (\A c \in 2..Len(valid_columns) :
                        input_file.rows[r][ColumnIndex(input_file.columns, valid_columns[c])]
                           < Threshold)
          /\ significant_clusters = [r \in 1..Len(final_df.rows) |-> final_df.rows[r][1]]
          /\ \A q \in 1..Len(significant_clusters) :
                \E r \in 1..Len(input_file.rows) :
                    significant_clusters[q] = input_file.rows[r][1]

====
